---- MODULE Spec2Model ----
(***************************************************************************)
(* The real-estate brokerage database: the write operations of            *)
(* insert_data.py, the monthly commission rollup and the report queries   *)
(* of query_data.py, over the tables declared in create.py.               *)
(*                                                                         *)
(* Representation.                                                         *)
(*  - A table is the sequence of its rows in id order: SQLite gives an    *)
(*    INTEGER PRIMARY KEY the value max(id)+1 and no operation deletes,   *)
(*    so the row with id i is element i.                                   *)
(*  - A date is the integer yyyymmdd, which orders as the ISO text        *)
(*    "yyyy-mm-dd" that the SQLite Date type stores and compares.         *)
(*  - Money is integer cents.  A commission rate is in permille           *)
(*    (0.075 = 75), so amount = price * rate \div 1000.                    *)
(*  - Values produced by Faker that no operation reads (names, addresses, *)
(*    phones, bedrooms, bathrooms, zip codes) are placeholders or left    *)
(*    out; values that are read (prices, dates, the agent and office      *)
(*    picked by choice()) are inputs of the actions.                       *)
(***************************************************************************)
EXTENDS Integers, Sequences, FiniteSets

VARIABLES Office, Agent, AgentOffice, Seller, Listing, Buyer, Sale,
          Commission, MonthlyCommission,   \* the committed tables
          lastOp,      \* the last call: its name, what it printed and raised
          result,      \* the arguments and the return value of the last query
          sessions,    \* the concurrent rollup sessions
          writeLock    \* the session holding SQLite's write lock, or 0

vars == <<Office, Agent, AgentOffice, Seller, Listing, Buyer, Sale,
          Commission, MonthlyCommission, lastOp, result, sessions, writeLock>>

tables == <<Office, Agent, AgentOffice, Seller, Listing, Buyer, Sale,
            Commission, MonthlyCommission>>

(***************************************************************************)
(* Bounds of the model.                                                    *)
(***************************************************************************)
MaxListings == 2
ProbeRadius == 5
MaxSalesPerAgent == 2

\* The ids the Office and Agent tables may grow to hold.
OfficeIds == {1}
AgentIds == {1, 2}

Years == {2023}
Months == 1..12
\* listing_price values (six digits, in dollars): $150,000.00 and
\* $200,000.00, in cents.
Prices == {15000000, 20000000}
ListingDates == {20230301}
SaleDates == {20230401, 20230501, 20231231}

(***************************************************************************)
(* Dates.                                                                  *)
(***************************************************************************)
IsLeap(y) == (y % 4 = 0 /\ y % 100 # 0) \/ y % 400 = 0

DaysInMonth(y, m) ==
    IF m \in {4, 6, 9, 11} THEN 30
    ELSE IF m = 2 THEN (IF IsLeap(y) THEN 29 ELSE 28)
    ELSE 31

\* datetime(y, m, d) raises ValueError outside these ranges.
ValidDate(y, m, d) == m \in 1..12 /\ d \in 1..DaysInMonth(y, m)

datetime(y, m, d) == y * 10000 + m * 100 + d

YearOf(date) == date \div 10000
MonthOf(date) == (date \div 100) % 100
DayOf(date) == date % 100

\* SQLite julianday(): the day number of a calendar date (the constant .5 of
\* midnight cancels in every difference the queries take).
julianday(date) ==
    LET a == (14 - MonthOf(date)) \div 12
        y == YearOf(date) + 4800 - a
        m == MonthOf(date) + 12 * a - 3
    IN  DayOf(date) + (153 * m + 2) \div 5 + 365 * y + y \div 4 - y \div 100
        + y \div 400 - 32045

\* The window of get_total_commission and of the four report queries:
\* start = first day of the month, end = first day of the next month.
MonthWindow(year, month) ==
    [start |-> datetime(year, month, 1),
     end   |-> IF month = 12 THEN datetime(year + 1, 1, 1)
               ELSE datetime(year, month + 1, 1)]

(***************************************************************************)
(* Commission rate (permille).                                             *)
(***************************************************************************)
\* (mutant) the tier bounds tested with <= where the code has <
get_commission_rate_inclusive(sale_price) ==
    IF sale_price <= 10000000 THEN 100
    ELSE IF sale_price <= 20000000 THEN 75
    ELSE IF sale_price <= 50000000 THEN 60
    ELSE IF sale_price <= 100000000 THEN 50
    ELSE 40

get_commission_rate(sale_price) ==
    IF sale_price < 10000000 THEN 100
    ELSE IF sale_price < 20000000 THEN 75
    ELSE IF sale_price < 50000000 THEN 60
    ELSE IF sale_price < 100000000 THEN 50
    ELSE 40

(***************************************************************************)
(* Helpers on tables.                                                      *)
(***************************************************************************)
Ids(table) == 1..Len(table)

Range(seq) == {seq[i] : i \in 1..Len(seq)}

RECURSIVE SumOver(_, _, _)
\* Sum of rows[i].amount (or another column, through the record f) over ids.
SumOver(f, ids, col) ==
    IF ids = {} THEN 0
    ELSE LET i == CHOOSE x \in ids : TRUE
         IN  f[i][col] + SumOver(f, ids \ {i}, col)

\* The database as one value, for the operations that are functions of it.
Store ==
    [Office |-> Office, Agent |-> Agent, AgentOffice |-> AgentOffice,
     Seller |-> Seller, Listing |-> Listing, Buyer |-> Buyer, Sale |-> Sale,
     Commission |-> Commission, MonthlyCommission |-> MonthlyCommission]

EmptyStore ==
    [Office |-> <<>>, Agent |-> <<>>, AgentOffice |-> <<>>,
     Seller |-> <<>>, Listing |-> <<>>, Buyer |-> <<>>, Sale |-> <<>>,
     Commission |-> <<>>, MonthlyCommission |-> <<>>]

\* (mutant) a rollback that keeps what the transaction had flushed
rollback_keeps_flushed(committed, tx) == tx

\* session.rollback(): the transaction's pending and flushed writes are
\* discarded, the store is what was committed before.
session_rollback(committed, tx) == committed

\* What an operation hands back: the store it leaves committed, the
\* exceptions it caught and printed, the exception it let escape ("none"
\* when it returned), and its return value.
Outcome(db, printed, raised, value) ==
    [db |-> db, printed |-> printed, raised |-> raised, value |-> value]

NoValue == <<>>

(***************************************************************************)
(* insert_data.py: the write operations.  Each takes the store and its    *)
(* inputs (the Faker and choice() draws it reads, and where the storage   *)
(* fails, if it does) and gives an Outcome.                                *)
(***************************************************************************)
OfficeRow == [address |-> "address"]
AgentRow == [name |-> "name", email |-> "email", phone |-> "phone"]
PersonRow == [name |-> "name", phone |-> "phone"]

Rows(n, row) == [i \in 1..n |-> row]

\* fail: the flush or the commit of session.commit() raises.
insert_offices(db, num_offices, fail) ==
    LET tx == [db EXCEPT !.Office = @ \o Rows(num_offices, OfficeRow)]
    IN  IF fail
        THEN Outcome(session_rollback(db, tx), <<"offices">>, "none", NoValue)
        ELSE Outcome(tx, <<>>, "none", NoValue)

\* office_choice[i] is the office choice() picks for the i-th new agent;
\* choice() of an empty list raises IndexError, which the handler catches.
insert_agents(db, num_agents, office_choice, fail) ==
    LET first_id == Len(db.Agent)
        tx == [db EXCEPT
                 !.Agent = @ \o Rows(num_agents, AgentRow),
                 !.AgentOffice = @ \o
                     [i \in 1..num_agents |->
                         [agent_id |-> first_id + i, office_id |-> office_choice[i]]]]
        indexError == num_agents > 0 /\ Len(db.Office) = 0
        partial == IF indexError
                   THEN [db EXCEPT !.Agent = Append(@, AgentRow)]
                   ELSE tx
    IN  IF indexError \/ fail
        THEN Outcome(session_rollback(db, partial), <<"agents">>, "none", NoValue)
        ELSE Outcome(tx, <<>>, "none", NoValue)

\* pairs[i] = <<agent id, office id>> picked by the two choice() calls.
assign_agents_to_offices(db, num_assignments, pairs, fail) ==
    LET tx == [db EXCEPT
                 !.AgentOffice = @ \o
                     [i \in 1..num_assignments |->
                         [agent_id |-> pairs[i][1], office_id |-> pairs[i][2]]]]
        indexError == num_assignments > 0 /\ (Len(db.Agent) = 0 \/ Len(db.Office) = 0)
    IN  IF indexError
        THEN Outcome(session_rollback(db, db), <<"assignments">>, "none", NoValue)
        ELSE IF fail
        THEN Outcome(session_rollback(db, tx), <<"assignments">>, "none", NoValue)
        ELSE Outcome(tx, <<>>, "none", NoValue)

\* The ids the objects of a batch carry after "add_all; commit" in a try
\* block whose except clause rolls back: the new ids when the commit went
\* through, None (0) when the INSERT of the batch failed.  (The failure
\* drawn for these blocks is the failing INSERT; a COMMIT that fails after
\* the INSERT went through is not among the inputs.)
BatchIds(table, n, fail) ==
    [i \in 1..n |-> IF fail = "insert" THEN 0 ELSE Len(table) + i]

BatchFailures == {"none", "insert"}

\* session.query(AgentOffice).filter(agent_id == a).first(): the matching
\* row of lowest id (SQLite scans the table in rowid order); None when the
\* agent has no row, and None.office_id raises AttributeError.
offices_of(agentOffice, a) == {i \in Ids(agentOffice) : agentOffice[i].agent_id = a}

first_office_of(agentOffice, a) ==
    LET rows == offices_of(agentOffice, a)
    IN  agentOffice[CHOOSE i \in rows : \A j \in rows : i <= j].office_id

\* picks[i] = [agent, price, date]: the draws for the i-th listing.
insert_listings(db, num_listings, picks, failSellers, fail) ==
    LET seller_ids == BatchIds(db.Seller, num_listings, failSellers)
        tx0 == [db EXCEPT !.Seller = @ \o Rows(num_listings, PersonRow)]
        db1 == IF failSellers = "none" THEN tx0 ELSE session_rollback(db, tx0)
        printed1 == IF failSellers = "none" THEN <<>> ELSE <<"sellers">>
        indexError == num_listings > 0 /\ Len(db.Agent) = 0
        attributeError == \E i \in 1..num_listings :
                              offices_of(db.AgentOffice, picks[i].agent) = {}
        notNull == \E i \in 1..num_listings : seller_ids[i] = 0
        tx == [db1 EXCEPT
                 !.Listing = @ \o
                     [i \in 1..num_listings |->
                         [seller_id |-> seller_ids[i],
                          listing_price |-> picks[i].price,
                          date_of_listing |-> picks[i].date,
                          listing_agent_id |-> picks[i].agent,
                          office_id |-> first_office_of(db.AgentOffice, picks[i].agent),
                          is_sold |-> 0]]]
    IN  IF indexError \/ attributeError
        THEN Outcome(session_rollback(db1, db1), printed1 \o <<"listings">>, "none", NoValue)
        ELSE IF notNull \/ fail
        THEN Outcome(session_rollback(db1, tx), printed1 \o <<"listings">>, "none", NoValue)
        ELSE Outcome(tx, printed1, "none", NoValue)

\* The ids of a set of rows as a sequence in id order, and a LIMIT n of it.
InIdOrder(ids) ==
    [j \in 1..Cardinality(ids) |->
        CHOOSE i \in ids : Cardinality({x \in ids : x < i}) = j - 1]

Limit(seq, n) == SubSeq(seq, 1, IF Len(seq) < n THEN Len(seq) ELSE n)

\* (mutant) the query without its is_sold == 0 filter
any_listings(listing, n) == Limit(InIdOrder(Ids(listing)), n)

\* session.query(Listing).filter(is_sold == 0).limit(n).all(): the first n
\* unsold listings (SQLite scans the table in id order), as their ids.
unsold_listings(listing, n) ==
    Limit(InIdOrder({i \in Ids(listing) : listing[i].is_sold = 0}), n)

\* (mutant) the query ordered by id ascending: the first Sale of the table
first_sale_id(sale) == 1

\* session.query(Sale).order_by(Sale.id.desc()).first().id, after the
\* autoflush that inserts the Sale just added.
last_sale_id(sale) == Len(sale)

\* (mutant) the flag is left as it was
mark_sold_skipped(listing, listing_id) == listing

\* listing.is_sold = 1
mark_sold(listing, listing_id) == [listing EXCEPT ![listing_id].is_sold = 1]

\* Where the storage may fail inside the second try block of insert_sales:
\* at the INSERT of the idx-th Sale, at the UPDATE of the idx-th listing's
\* is_sold, at the INSERT of the idx-th Commission, or at the COMMIT.
SaleFailures(n) ==
    {<<"none", 0>>, <<"commit", 0>>}
    \cup ({"sale", "flag", "commission"} \X (1..n))

RECURSIVE SalesLoop(_, _, _, _, _, _)
\* The loop of insert_sales from its idx-th step on, in the transaction tx.
\* A Sale whose buyer_id is None violates NOT NULL when it is flushed.
SalesLoop(tx, listings, buyer_ids, dates, failAt, idx) ==
    IF idx > Len(listings) THEN [tx |-> tx, failed |-> FALSE]
    ELSE
      LET listing_id == listings[idx]
          listing == tx.Listing[listing_id]
          selling_agent_id == listing.listing_agent_id
          sale == [buyer_id |-> buyer_ids[idx],
                   sale_price |-> listing.listing_price,
                   date_of_sale |-> dates[idx],
                   selling_agent_id |-> selling_agent_id,
                   office_id |-> listing.office_id,
                   listing_id |-> listing_id]
          tx1 == [tx EXCEPT !.Sale = Append(@, sale)]
          sale_id == last_sale_id(tx1.Sale)
          tx2 == [tx1 EXCEPT !.Listing = mark_sold(@, listing_id)]
          commision_rate == get_commission_rate(sale.sale_price)
          commision_amount == (sale.sale_price * commision_rate) \div 1000
          commision == [agent_id |-> selling_agent_id,
                        sale_id |-> sale_id,
                        amount |-> commision_amount,
                        date_of_commission |-> sale.date_of_sale]
          tx3 == [tx2 EXCEPT !.Commission = Append(@, commision)]
      IN  IF sale.buyer_id = 0 \/ failAt = <<"sale", idx>>
          THEN [tx |-> tx, failed |-> TRUE]
          ELSE IF failAt = <<"flag", idx>> THEN [tx |-> tx1, failed |-> TRUE]
          ELSE IF failAt = <<"commission", idx>> THEN [tx |-> tx2, failed |-> TRUE]
          ELSE SalesLoop(tx3, listings, buyer_ids, dates, failAt, idx + 1)

\* dates[i] is the date_of_sale Faker draws for the i-th listing sold
\* (between its date_of_listing and today).
insert_sales(db, num_sales, dates, failBuyers, failAt) ==
    LET buyer_ids == BatchIds(db.Buyer, num_sales, failBuyers)
        tx0 == [db EXCEPT !.Buyer = @ \o Rows(num_sales, PersonRow)]
        db1 == IF failBuyers = "none" THEN tx0 ELSE session_rollback(db, tx0)
        printed1 == IF failBuyers = "none" THEN <<>> ELSE <<"buyers">>
        listings == unsold_listings(db1.Listing, num_sales)
        loop == SalesLoop(db1, listings, buyer_ids, dates, failAt, 1)
    IN  IF loop.failed \/ failAt = <<"commit", 0>>
        THEN Outcome(session_rollback(db1, loop.tx), printed1 \o <<"sales">>, "none", NoValue)
        ELSE Outcome(loop.tx, printed1, "none", NoValue)

(***************************************************************************)
(* query_data.py: the monthly rollup.                                      *)
(***************************************************************************)
\* (mutant) the window closed at its end: date_of_commission <= end_date
commissions_upto(commission, a, start, end) ==
    {i \in Ids(commission) :
        /\ commission[i].agent_id = a
        /\ commission[i].date_of_commission >= start
        /\ commission[i].date_of_commission <= end}

\* The ids of the Commission rows of agent a dated in [start, end).
commissions_in(commission, a, start, end) ==
    {i \in Ids(commission) :
        /\ commission[i].agent_id = a
        /\ commission[i].date_of_commission >= start
        /\ commission[i].date_of_commission < end}

\* Agent JOIN Commission, filtered to the window, grouped by Agent.id: the
\* agents with a Commission in the window, each with the sum of its amounts.
total_commission(db, a, start, end) ==
    SumOver(db.Commission, commissions_in(db.Commission, a, start, end), "amount")

agents_in_window(db, start, end) ==
    {a \in Ids(db.Agent) : commissions_in(db.Commission, a, start, end) # {}}

\* ORDER BY count DESC LIMIT limit over the groups keys, cnt[k] the value
\* ordered by: every result SQL allows (it leaves the order of equal values,
\* and which of them the limit cuts, open).
ranked(keys, cnt, limit) ==
    LET n == IF Cardinality(keys) < limit THEN Cardinality(keys) ELSE limit
    IN  {r \in [1..n -> keys] :
            /\ \A i, j \in 1..n : i # j => r[i] # r[j]
            /\ \A i, j \in 1..n : i < j => cnt[r[i]] >= cnt[r[j]]
            /\ \A k \in keys \ {r[i] : i \in 1..n} :
                  \A i \in 1..n : cnt[r[i]] >= cnt[k]}

\* ORDER BY sum(amount) DESC, no limit: the orders the aggregate query of
\* get_total_commission may return the agents in.
agents_commission_orders(db, start, end) ==
    LET agents == agents_in_window(db, start, end)
    IN  ranked(agents,
               [a \in agents |-> total_commission(db, a, start, end)],
               Cardinality(agents))

\* (mutant) the check compares the date with > where the code has ==
monthly_rows_after(monthly, a, date) ==
    {i \in Ids(monthly) : monthly[i].agent_id = a /\ monthly[i].date > date}

\* The existence check of the loop: the MonthlyCommission rows of the agent
\* for the date, in the store as the session sees it.
monthly_rows_for(monthly, a, date) ==
    {i \in Ids(monthly) : monthly[i].agent_id = a /\ monthly[i].date = date}

RECURSIVE RollupLoopUnchecked(_, _, _, _)
\* (mutant) the loop without its check-before-insert
RollupLoopUnchecked(monthly, agents_commission, end_date, idx) ==
    IF idx > Len(agents_commission) THEN monthly
    ELSE RollupLoopUnchecked(
             Append(monthly, [agent_id |-> agents_commission[idx][1],
                              date |-> end_date,
                              amount |-> agents_commission[idx][2]]),
             agents_commission, end_date, idx + 1)

RECURSIVE RollupLoopRefreshing(_, _, _, _)
\* (mutant) the loop overwrites the amount of the row it finds
RollupLoopRefreshing(monthly, agents_commission, end_date, idx) ==
    IF idx > Len(agents_commission) THEN monthly
    ELSE
      LET agent_commission == agents_commission[idx]
          monthly_commission == [agent_id |-> agent_commission[1],
                                 date |-> end_date,
                                 amount |-> agent_commission[2]]
          found == {i \in Ids(monthly) : /\ monthly[i].agent_id = agent_commission[1]
                                         /\ monthly[i].date = end_date}
      IN  IF found # {}
          THEN RollupLoopRefreshing(
                   [i \in Ids(monthly) |->
                       IF i \in found THEN monthly_commission ELSE monthly[i]],
                   agents_commission, end_date, idx + 1)
          ELSE RollupLoopRefreshing(Append(monthly, monthly_commission),
                                    agents_commission, end_date, idx + 1)

RECURSIVE RollupLoop(_, _, _, _)
\* The loop of get_total_commission over agents_commission from step idx.
\* monthly is the MonthlyCommission table as the session sees it: the
\* committed rows and the rows it has added (each query autoflushes them).
\* agents_commission[idx] = <<agent id, total>> as the aggregate query read it.
RollupLoop(monthly, agents_commission, end_date, idx) ==
    IF idx > Len(agents_commission) THEN monthly
    ELSE
      LET agent_commission == agents_commission[idx]
          monthly_commission == [agent_id |-> agent_commission[1],
                                 date |-> end_date,
                                 amount |-> agent_commission[2]]
      IN  IF Cardinality(monthly_rows_for(monthly, agent_commission[1], end_date)) > 0
          THEN RollupLoop(monthly, agents_commission, end_date, idx + 1)
          ELSE RollupLoop(Append(monthly, monthly_commission),
                          agents_commission, end_date, idx + 1)

\* order: the order the aggregate query returned the agents in.
\* fail: the flush or the commit of the final session.commit() raises; the
\* function has no except clause, so the exception escapes and nothing of
\* the transaction is committed.
get_total_commission(db, year, month, order, fail) ==
    LET w == MonthWindow(year, month)
        agents_commission ==
            [i \in 1..Len(order) |->
                <<order[i], total_commission(db, order[i], w.start, w.end)>>]
        tx == [db EXCEPT !.MonthlyCommission =
                             RollupLoop(@, agents_commission, w.end, 1)]
    IN  IF fail
        THEN Outcome(db, <<>>, "OperationalError", NoValue)
        ELSE Outcome(tx, <<>>, "none", NoValue)

(***************************************************************************)
(* query_data.py: the report queries.                                      *)
(***************************************************************************)
TopLimit == 5

\* (mutant) the window left open at its end: no date_of_sale < end_date
sales_since(sale, start, end) ==
    {i \in Ids(sale) : sale[i].date_of_sale >= start}

sales_in(sale, start, end) ==
    {i \in Ids(sale) : sale[i].date_of_sale >= start /\ sale[i].date_of_sale < end}

\* Office JOIN Listing JOIN Sale, grouped by office: the results the query
\* may return, each a sequence of <<office id, address, sales_count>>.
top_offices_by_sales_monthly(db, year, month) ==
    LET w == MonthWindow(year, month)
        count(o) == Cardinality({i \in sales_in(db.Sale, w.start, w.end) :
                        /\ db.Sale[i].listing_id \in Ids(db.Listing)
                        /\ db.Listing[db.Sale[i].listing_id].office_id = o})
        offices == {o \in Ids(db.Office) : count(o) > 0}
        cnt == [o \in offices |-> count(o)]
    IN  {[i \in 1..Len(r) |-> <<r[i], db.Office[r[i]].address, cnt[r[i]]>>] :
            r \in ranked(offices, cnt, TopLimit)}

\* Agent JOIN Sale on selling_agent_id, grouped by agent: sequences of
\* <<agent id, name, email, phone, sales_count>>.
top_agents_by_sales_monthly(db, year, month) ==
    LET w == MonthWindow(year, month)
        count(a) == Cardinality({i \in sales_in(db.Sale, w.start, w.end) :
                        db.Sale[i].selling_agent_id = a})
        agents == {a \in Ids(db.Agent) : count(a) > 0}
        cnt == [a \in agents |-> count(a)]
    IN  {[i \in 1..Len(r) |->
            <<r[i], db.Agent[r[i]].name, db.Agent[r[i]].email,
              db.Agent[r[i]].phone, cnt[r[i]]>>] :
            r \in ranked(agents, cnt, TopLimit)}

\* SQL avg() over the rows ids: NULL (Python None) over no row, else the
\* quotient sum / count, kept as the pair.
avg(f, ids, col) ==
    IF ids = {}
    THEN [none |-> TRUE, sum |-> 0, count |-> 0]
    ELSE [none |-> FALSE, sum |-> SumOver(f, ids, col), count |-> Cardinality(ids)]

average_days_on_market_monthly(db, year, month) ==
    LET w == MonthWindow(year, month)
        joined == {i \in sales_in(db.Sale, w.start, w.end) :
                      db.Sale[i].listing_id \in Ids(db.Listing)}
        days == [i \in joined |->
                    [days |-> julianday(db.Sale[i].date_of_sale)
                              - julianday(db.Listing[db.Sale[i].listing_id].date_of_listing)]]
    IN  avg(days, joined, "days")

average_selling_price_monthly(db, year, month) ==
    LET w == MonthWindow(year, month)
    IN  avg(db.Sale, sales_in(db.Sale, w.start, w.end), "sale_price")

\* (mutant) the table query deletes the rows it has printed
print_monthly_commission_table_consuming(db, year, month) ==
    LET start_date == datetime(year, month - 1, 1)
        end_date == IF month = 12 THEN datetime(year + 1, 1, 1)
                    ELSE datetime(year, month + 1, 1)
        valid == /\ ValidDate(year, month - 1, 1)
                 /\ (month = 12 \/ ValidDate(year, month + 1, 1))
        ids == {i \in Ids(db.MonthlyCommission) :
                   /\ db.MonthlyCommission[i].date >= start_date
                   /\ db.MonthlyCommission[i].date < end_date}
        shown == InIdOrder(ids)
        kept == InIdOrder(Ids(db.MonthlyCommission) \ ids)
    IN  IF ~valid THEN Outcome(db, <<>>, "ValueError", NoValue)
        ELSE Outcome([db EXCEPT !.MonthlyCommission =
                         [j \in 1..Len(kept) |-> db.MonthlyCommission[kept[j]]]],
                     <<>>, "none",
                     [j \in 1..Len(shown) |->
                        <<db.MonthlyCommission[shown[j]].agent_id,
                          db.MonthlyCommission[shown[j]].amount>>])

\* The rows of the printed table, <<agent id, amount>> in id order, or the
\* ValueError of datetime() for a month number outside 1..12.
print_monthly_commission_table(db, year, month) ==
    LET start_date == datetime(year, month - 1, 1)
        end_date == IF month = 12 THEN datetime(year + 1, 1, 1)
                    ELSE datetime(year, month + 1, 1)
        valid == /\ ValidDate(year, month - 1, 1)
                 /\ (month = 12 \/ ValidDate(year, month + 1, 1))
        ids == {i \in Ids(db.MonthlyCommission) :
                   /\ db.MonthlyCommission[i].date >= start_date
                   /\ db.MonthlyCommission[i].date < end_date}
        shown == InIdOrder(ids)
    IN  IF ~valid THEN Outcome(db, <<>>, "ValueError", NoValue)
        ELSE Outcome(db, <<>>, "none",
                     [j \in 1..Len(shown) |->
                        <<db.MonthlyCommission[shown[j]].agent_id,
                          db.MonthlyCommission[shown[j]].amount>>])

\* main() of query_data.py for the month it is set to report on: the
\* rollup, the two top-5 tables, the commission table for month + 1, the
\* two averages; the ":.2f" format of a None average raises TypeError.
query_main(db, year, month, order, fail) ==
    LET rollup == get_total_commission(db, year, month, order, fail)
        table == print_monthly_commission_table(rollup.db, year, month + 1)
        avg_days_on_market == average_days_on_market_monthly(rollup.db, year, month)
        avg_selling_price == average_selling_price_monthly(rollup.db, year, month)
    IN  IF rollup.raised # "none" THEN rollup
        ELSE IF table.raised # "none" THEN Outcome(rollup.db, <<>>, table.raised, NoValue)
        ELSE IF avg_selling_price.none THEN Outcome(rollup.db, <<>>, "TypeError", table.value)
        ELSE Outcome(rollup.db, <<>>, "none", table.value)

(***************************************************************************)
(* The state machine of the store: one action per write operation and the *)
(* rollup, called in any order, each in a session of its own that it runs *)
(* to the end.                                                             *)
(***************************************************************************)
NoCall == [op |-> "none", printed |-> <<>>, raised |-> "none"]

Init ==
    /\ Office = <<>> /\ Agent = <<>> /\ AgentOffice = <<>>
    /\ Seller = <<>> /\ Listing = <<>> /\ Buyer = <<>>
    /\ Sale = <<>> /\ Commission = <<>> /\ MonthlyCommission = <<>>
    /\ lastOp = NoCall
    /\ result = NoValue
    /\ sessions = <<>>
    /\ writeLock = 0

SetStore(db) ==
    /\ Office' = db.Office
    /\ Agent' = db.Agent
    /\ AgentOffice' = db.AgentOffice
    /\ Seller' = db.Seller
    /\ Listing' = db.Listing
    /\ Buyer' = db.Buyer
    /\ Sale' = db.Sale
    /\ Commission' = db.Commission
    /\ MonthlyCommission' = db.MonthlyCommission

\* The call op ended with Outcome out.
Finish(op, out) ==
    /\ SetStore(out.db)
    /\ lastOp' = [op |-> op, printed |-> out.printed, raised |-> out.raised]
    /\ result' = out.value
    /\ UNCHANGED <<sessions, writeLock>>

\* choice() over a table's rows; 0 stands for the draw that cannot be made
\* when the table is empty (choice() raises IndexError).
Choices(table) == IF Len(table) = 0 THEN {0} ELSE Ids(table)

InsertOffices ==
    \E n \in OfficeIds, fail \in BOOLEAN :
        /\ Len(Office) + n <= Cardinality(OfficeIds)
        /\ Finish("insert_offices", insert_offices(Store, n, fail))

InsertAgents ==
    \E n \in AgentIds, fail \in BOOLEAN :
        /\ Len(Agent) + n <= Cardinality(AgentIds)
        /\ Len(AgentOffice) + n <= Cardinality(AgentIds)
        /\ \E office_choice \in [1..n -> Choices(Office)] :
              Finish("insert_agents", insert_agents(Store, n, office_choice, fail))

AssignAgentsToOffices ==
    \E n \in AgentIds, fail \in BOOLEAN :
        /\ Len(AgentOffice) + n <= Cardinality(AgentIds)
        /\ \E pairs \in [1..n -> Choices(Agent) \X Choices(Office)] :
              Finish("assign_agents_to_offices",
                     assign_agents_to_offices(Store, n, pairs, fail))

InsertListings ==
    \E n \in 1..MaxListings, failSellers \in BatchFailures, fail \in BOOLEAN :
        /\ Len(Listing) + n <= MaxListings
        /\ Len(Seller) + n <= MaxListings
        /\ \E picks \in [1..n -> [agent : Choices(Agent), price : Prices,
                                  date : ListingDates]] :
              Finish("insert_listings",
                     insert_listings(Store, n, picks, failSellers, fail))

\* The date_of_sale draws insert_sales can make for the listings it would
\* sell: each between the listing's date_of_listing and today.
SaleDateDraws(listing, listings) ==
    {dates \in [1..Len(listings) -> SaleDates] :
        \A i \in 1..Len(listings) : dates[i] >= listing[listings[i]].date_of_listing}

InsertSales ==
    \E n \in 1..MaxListings, failBuyers \in BatchFailures :
        /\ Len(Buyer) + n <= MaxListings
        /\ LET listings == unsold_listings(Listing, n)
           IN  \E failAt \in SaleFailures(Len(listings)),
                  dates \in SaleDateDraws(Listing, listings) :
                  Finish("insert_sales",
                         insert_sales(Store, n, dates, failBuyers, failAt))

GetTotalCommission ==
    \E year \in Years, month \in Months, fail \in BOOLEAN :
        LET w == MonthWindow(year, month)
        IN  \E order \in agents_commission_orders(Store, w.start, w.end) :
               Finish("get_total_commission",
                      get_total_commission(Store, year, month, order, fail))

Next ==
    \/ InsertOffices
    \/ InsertAgents
    \/ AssignAgentsToOffices
    \/ InsertListings
    \/ InsertSales
    \/ GetTotalCommission

Spec == Init /\ [][Next]_vars

(***************************************************************************)
(* The commission rate as a function of the price (SpecRate): the price   *)
(* is drawn around the tier bounds and around 0, the action applies        *)
(* get_commission_rate to it.                                              *)
(***************************************************************************)
TierBounds == {0, 10000000, 20000000, 50000000, 100000000}

PriceProbes == {t + d : t \in TierBounds, d \in (0 - ProbeRadius)..ProbeRadius}

EmptyTables ==
    /\ Office = <<>> /\ Agent = <<>> /\ AgentOffice = <<>>
    /\ Seller = <<>> /\ Listing = <<>> /\ Buyer = <<>>
    /\ Sale = <<>> /\ Commission = <<>> /\ MonthlyCommission = <<>>

InitRate ==
    /\ EmptyTables
    /\ lastOp = NoCall
    /\ \E p \in PriceProbes : result = [sale_price |-> p, rate |-> 0]
    /\ sessions = <<>>
    /\ writeLock = 0

GetCommissionRate ==
    /\ lastOp.op = "none"
    /\ lastOp' = [op |-> "get_commission_rate", printed |-> <<>>, raised |-> "none"]
    /\ result' = [result EXCEPT !.rate = get_commission_rate(result.sale_price)]
    /\ UNCHANGED <<tables, sessions, writeLock>>

SpecRate == InitRate /\ [][GetCommissionRate]_vars

(***************************************************************************)
(* The stores the seeding script leaves: main() of insert_data.py runs    *)
(* insert_offices, insert_agents, assign_agents_to_offices,                *)
(* insert_listings and insert_sales in this order on the empty database.   *)
(***************************************************************************)
SeededStores ==
    LET offices == insert_offices(EmptyStore, Cardinality(OfficeIds), FALSE).db
        agents == insert_agents(offices, Cardinality(AgentIds),
                                [i \in AgentIds |-> CHOOSE o \in OfficeIds : TRUE],
                                FALSE).db
        assigned == assign_agents_to_offices(
                        agents, Cardinality(OfficeIds),
                        [i \in OfficeIds |-> <<CHOOSE a \in AgentIds : TRUE, i>>],
                        FALSE).db
        listed == {insert_listings(assigned, MaxListings, picks, "none", FALSE).db :
                      picks \in [1..MaxListings ->
                                    [agent : AgentIds, price : Prices, date : ListingDates]]}
    IN  UNION {UNION {{insert_sales(db, num_sales, dates, "none", <<"none", 0>>).db :
                          dates \in SaleDateDraws(db.Listing,
                                                  unsold_listings(db.Listing, num_sales))} :
                      num_sales \in 0..MaxListings} :
               db \in listed}

(***************************************************************************)
(* The report (SpecReport): on a seeded store, the rollup, the report     *)
(* queries and main() of query_data.py, called in any order for any       *)
(* (year, month).  result holds the arguments and what the call returned  *)
(* or printed.                                                             *)
(***************************************************************************)
InitReport ==
    /\ \E db \in SeededStores :
          /\ Office = db.Office /\ Agent = db.Agent /\ AgentOffice = db.AgentOffice
          /\ Seller = db.Seller /\ Listing = db.Listing /\ Buyer = db.Buyer
          /\ Sale = db.Sale /\ Commission = db.Commission
          /\ MonthlyCommission = db.MonthlyCommission
    /\ lastOp = NoCall
    /\ result = NoValue
    /\ sessions = <<>>
    /\ writeLock = 0

\* The call op(year, month) ended with Outcome out.
FinishQuery(op, year, month, out) ==
    Finish(op, [out EXCEPT !.value = [year |-> year, month |-> month, value |-> out.value]])

ReportRollup ==
    \E year \in Years, month \in Months, fail \in BOOLEAN :
        LET w == MonthWindow(year, month)
        IN  \E order \in agents_commission_orders(Store, w.start, w.end) :
               FinishQuery("get_total_commission", year, month,
                           get_total_commission(Store, year, month, order, fail))

TopOfficesBySalesMonthly ==
    \E year \in Years, month \in Months :
        \E rows \in top_offices_by_sales_monthly(Store, year, month) :
            FinishQuery("top_offices_by_sales_monthly", year, month,
                        Outcome(Store, <<>>, "none", rows))

TopAgentsBySalesMonthly ==
    \E year \in Years, month \in Months :
        \E rows \in top_agents_by_sales_monthly(Store, year, month) :
            FinishQuery("top_agents_by_sales_monthly", year, month,
                        Outcome(Store, <<>>, "none", rows))

AverageDaysOnMarketMonthly ==
    \E year \in Years, month \in Months :
        \E avg_days \in {average_days_on_market_monthly(Store, year, month)} :
            FinishQuery("average_days_on_market_monthly", year, month,
                        Outcome(Store, <<>>, "none", avg_days))

AverageSellingPriceMonthly ==
    \E year \in Years, month \in Months :
        \E avg_price \in {average_selling_price_monthly(Store, year, month)} :
            FinishQuery("average_selling_price_monthly", year, month,
                        Outcome(Store, <<>>, "none", avg_price))

PrintMonthlyCommissionTable ==
    \E year \in Years, month \in Months :
        \E table \in {print_monthly_commission_table(Store, year, month)} :
            FinishQuery("print_monthly_commission_table", year, month, table)

QueryMain ==
    \E year \in Years, month \in Months, fail \in BOOLEAN :
        LET w == MonthWindow(year, month)
        IN  \E order \in agents_commission_orders(Store, w.start, w.end) :
               FinishQuery("main", year, month,
                           query_main(Store, year, month, order, fail))

NextReport ==
    \/ ReportRollup
    \/ TopOfficesBySalesMonthly
    \/ TopAgentsBySalesMonthly
    \/ AverageDaysOnMarketMonthly
    \/ AverageSellingPriceMonthly
    \/ PrintMonthlyCommissionTable
    \/ QueryMain

SpecReport == InitReport /\ [][NextReport]_vars

(***************************************************************************)
(* The top agents (SpecTop): stores with one agent more than the limit of *)
(* the query, seeded by insert_offices, insert_agents, insert_listings     *)
(* and one insert_sales that sells every listing.  Agent a has counts[a]   *)
(* sales dated 2023-04-01; with late, agent 1 has one more, dated          *)
(* 2023-05-01, the end of April's window.                                  *)
(***************************************************************************)
TopAgentIds == 1..(TopLimit + 1)

RECURSIVE AgentRuns(_, _)
\* The listing agents of the seeded listings: counts[a] times agent a, for
\* a, a + 1, ... in turn.
AgentRuns(counts, a) ==
    IF a \notin TopAgentIds THEN <<>>
    ELSE [i \in 1..counts[a] |-> a] \o AgentRuns(counts, a + 1)

TopStores ==
    LET offices == insert_offices(EmptyStore, 1, FALSE).db
        agents == insert_agents(offices, Cardinality(TopAgentIds),
                                [i \in TopAgentIds |-> 1], FALSE).db
        sold(counts, late) ==
            LET runs == AgentRuns(counts, 1) \o (IF late THEN <<1>> ELSE <<>>)
                n == Len(runs)
                picks == [i \in 1..n |->
                             [agent |-> runs[i], price |-> 15000000, date |-> 20230301]]
                dates == [i \in 1..n |->
                             IF late /\ i = n THEN 20230501 ELSE 20230401]
                listed == insert_listings(agents, n, picks, "none", FALSE).db
            IN  insert_sales(listed, n, dates, "none", <<"none", 0>>).db
    IN  {sold(counts, late) :
            counts \in [TopAgentIds -> 0..MaxSalesPerAgent], late \in BOOLEAN}

InitTop ==
    /\ \E db \in TopStores :
          /\ Office = db.Office /\ Agent = db.Agent /\ AgentOffice = db.AgentOffice
          /\ Seller = db.Seller /\ Listing = db.Listing /\ Buyer = db.Buyer
          /\ Sale = db.Sale /\ Commission = db.Commission
          /\ MonthlyCommission = db.MonthlyCommission
    /\ lastOp = NoCall
    /\ result = NoValue
    /\ sessions = <<>>
    /\ writeLock = 0

\* One call of the query on the seeded store.
TopAgentsOnce ==
    /\ lastOp.op = "none"
    /\ TopAgentsBySalesMonthly

SpecTop == InitTop /\ [][TopAgentsOnce]_vars

(***************************************************************************)
(* Two rollups at once (SpecConc): on a seeded store, two sessions, each   *)
(* from its own create_session() on the same database file, each run       *)
(* get_total_commission once for the same (year, month), their statements  *)
(* interleaved.  A session reads what is committed and what it has         *)
(* flushed itself; its flush takes the database's write lock, which it     *)
(* holds until its commit; a flush that finds the lock taken waits         *)
(* (the step is not taken yet) or gives up with OperationalError.          *)
(***************************************************************************)
SessionIds == {1, 2}

IdleSession ==
    [pc |-> "idle", year |-> 0, month |-> 0, agents_commission |-> <<>>,
     idx |-> 0, pending |-> <<>>, flushed |-> <<>>]

InitConc ==
    /\ \E db \in SeededStores :
          /\ Office = db.Office /\ Agent = db.Agent /\ AgentOffice = db.AgentOffice
          /\ Seller = db.Seller /\ Listing = db.Listing /\ Buyer = db.Buyer
          /\ Sale = db.Sale /\ Commission = db.Commission
          /\ MonthlyCommission = db.MonthlyCommission
    /\ lastOp = NoCall
    /\ result = NoValue
    /\ sessions = [s \in SessionIds |-> IdleSession]
    /\ writeLock = 0

\* The session may write: no other session holds the write lock.
can_write(s) == writeLock \in {0, s}

\* The call starts: the window and the aggregate query over Commission.
ConcBegin(s) ==
    /\ sessions[s].pc = "idle"
    /\ \E year \in Years, month \in Months :
          /\ \A t \in SessionIds \ {s} :
                sessions[t].pc # "idle" =>
                    (year = sessions[t].year /\ month = sessions[t].month)
          /\ LET w == MonthWindow(year, month)
             IN  \E order \in agents_commission_orders(Store, w.start, w.end) :
                    sessions' = [sessions EXCEPT ![s] =
                        [pc |-> "loop", year |-> year, month |-> month,
                         agents_commission |->
                             [i \in 1..Len(order) |->
                                 <<order[i],
                                   total_commission(Store, order[i], w.start, w.end)>>],
                         idx |-> 1, pending |-> <<>>, flushed |-> <<>>]]
    /\ UNCHANGED <<tables, lastOp, result, writeLock>>

\* One turn of the loop: the existence query (which first flushes the row
\* the turn before added) and, when it finds nothing, session.add.
ConcCheck(s) ==
    LET me == sessions[s]
        w == MonthWindow(me.year, me.month)
        flushed == me.flushed \o me.pending
        seen == MonthlyCommission \o flushed
        after == RollupLoop(seen, <<me.agents_commission[me.idx]>>, w.end, 1)
    IN  /\ me.pc = "loop"
        /\ me.idx <= Len(me.agents_commission)
        /\ me.pending # <<>> => can_write(s)
        /\ sessions' = [sessions EXCEPT ![s] =
               [me EXCEPT !.flushed = flushed,
                          !.pending = SubSeq(after, Len(seen) + 1, Len(after)),
                          !.idx = me.idx + 1]]
        /\ writeLock' = IF me.pending # <<>> THEN s ELSE writeLock
        /\ UNCHANGED <<tables, lastOp, result>>

\* session.commit() after the loop: flush what is pending and commit.
ConcCommit(s) ==
    LET me == sessions[s]
    IN  /\ me.pc = "loop"
        /\ me.idx > Len(me.agents_commission)
        /\ me.pending # <<>> => can_write(s)
        /\ MonthlyCommission' = MonthlyCommission \o me.flushed \o me.pending
        /\ sessions' = [sessions EXCEPT ![s] =
               [me EXCEPT !.pc = "done", !.pending = <<>>, !.flushed = <<>>]]
        /\ writeLock' = IF writeLock = s THEN 0 ELSE writeLock
        /\ lastOp' = [op |-> "get_total_commission", printed |-> <<>>, raised |-> "none"]
        /\ UNCHANGED <<Office, Agent, AgentOffice, Seller, Listing, Buyer, Sale,
                       Commission, result>>

\* A flush finds the write lock held by the other session until the busy
\* timeout: OperationalError escapes the call, nothing of it is committed.
ConcLocked(s) ==
    LET me == sessions[s]
    IN  /\ me.pc = "loop"
        /\ me.pending # <<>>
        /\ ~ can_write(s)
        /\ sessions' = [sessions EXCEPT ![s] =
               [me EXCEPT !.pc = "raised", !.pending = <<>>, !.flushed = <<>>]]
        /\ lastOp' = [op |-> "get_total_commission", printed |-> <<>>,
                      raised |-> "OperationalError"]
        /\ UNCHANGED <<tables, result, writeLock>>

NextConc ==
    \E s \in SessionIds :
        \/ ConcBegin(s)
        \/ ConcCheck(s)
        \/ ConcCommit(s)
        \/ ConcLocked(s)

SpecConc == InitConc /\ [][NextConc]_vars

(***************************************************************************)
(* Properties of the store machine (Spec).                                 *)
(***************************************************************************)
\* The MonthlyCommission table after a rollup of (year, month) that meets
\* no storage failure, for each order the aggregate query may return.
RolledUp(db, year, month) ==
    LET w == MonthWindow(year, month)
    IN  {get_total_commission(db, year, month, order, FALSE).db :
            order \in agents_commission_orders(db, w.start, w.end)}

\* C1: from every reachable store and for every (year, month), a second
\* rollup of the same month right after a first one leaves the
\* MonthlyCommission table exactly as the first left it.
C1_RollupIdempotent ==
    \A year \in Years, month \in Months :
        \A once \in RolledUp(Store, year, month) :
            \A twice \in RolledUp(once, year, month) :
                twice.MonthlyCommission = once.MonthlyCommission

\* A rollup has just stored a row for April 2023 (dated 2023-05-01) for an
\* agent with Commissions in April: the store a second call starts from.
C1_Witness ==
    /\ lastOp.op = "get_total_commission"
    /\ lastOp.raised = "none"
    /\ \E i \in Ids(MonthlyCommission) :
          /\ MonthlyCommission[i].date = 20230501
          /\ \E c \in Ids(Commission) :
                /\ Commission[c].agent_id = MonthlyCommission[i].agent_id
                /\ Commission[c].date_of_commission = 20230401

\* C2: in every state reached by sale batches and rollups in any order,
\* no two MonthlyCommission rows have the same (agent_id, date).
C2_OneRowPerAgentDate ==
    \A i, j \in Ids(MonthlyCommission) :
        (/\ MonthlyCommission[i].agent_id = MonthlyCommission[j].agent_id
         /\ MonthlyCommission[i].date = MonthlyCommission[j].date) => i = j

\* A rollup has just run over a month it had rolled up before a further
\* sale of the same agent was recorded in it: the row is there, once, with
\* the earlier total.
C2_Witness ==
    /\ lastOp.op = "get_total_commission"
    /\ lastOp.raised = "none"
    /\ \E i \in Ids(MonthlyCommission) :
          /\ MonthlyCommission[i].date = 20230501
          /\ Cardinality({c \in Ids(Commission) :
                /\ Commission[c].agent_id = MonthlyCommission[i].agent_id
                /\ Commission[c].date_of_commission = 20230401}) = 2
          /\ MonthlyCommission[i].amount < 1600000

\* The sum of the Commission amounts of agent a dated in [start, end).
WindowTotal(a, start, end) ==
    LET ids == {c \in Ids(Commission) :
                   /\ Commission[c].agent_id = a
                   /\ start <= Commission[c].date_of_commission
                   /\ Commission[c].date_of_commission < end}
    IN  [count |-> Cardinality(ids), total |-> SumOver(Commission, ids, "amount")]

\* C4: from every reachable store, for every year and month 1..12, the
\* rollup keeps the rows there were and appends exactly one row (agent,
\* end, sum of the agent's Commission amounts in [start, end)) for each agent
\* with a Commission in the window and no row for (agent, end), where end is
\* the first day of the next month (of January of year + 1 for December).
C4_RollupResult ==
    \A year \in Years, month \in 1..12 :
        LET start == year * 10000 + month * 100 + 1
            end == IF month = 12 THEN (year + 1) * 10000 + 101
                   ELSE year * 10000 + (month + 1) * 100 + 1
            due == {a \in Ids(Agent) :
                       /\ WindowTotal(a, start, end).count > 0
                       /\ ~ \E i \in Ids(MonthlyCommission) :
                              /\ MonthlyCommission[i].agent_id = a
                              /\ MonthlyCommission[i].date = end}
        IN  \A after \in RolledUp(Store, year, month) :
               LET rows == after.MonthlyCommission
                   new == (Len(MonthlyCommission) + 1)..Len(rows)
               IN  /\ Len(rows) = Len(MonthlyCommission) + Cardinality(due)
                   /\ SubSeq(rows, 1, Len(MonthlyCommission)) = MonthlyCommission
                   /\ {rows[i].agent_id : i \in new} = due
                   /\ \A i \in new :
                         /\ rows[i].date = end
                         /\ rows[i].amount = WindowTotal(rows[i].agent_id, start, end).total

\* The rollup of December 2023 has just stored, under 2024-01-01, the sum
\* of two Commissions of one agent.
C4_Witness ==
    /\ lastOp.op = "get_total_commission"
    /\ lastOp.raised = "none"
    /\ \E i \in Ids(MonthlyCommission) :
          /\ MonthlyCommission[i].date = 20240101
          /\ WindowTotal(MonthlyCommission[i].agent_id, 20231201, 20240101).count = 2
          /\ MonthlyCommission[i].amount = 2325000

\* The Sale rows of listing l, and the Commission rows of sale s.
SalesOf(sale, l) == {i \in Ids(sale) : sale[i].listing_id = l}
CommissionsOf(commission, s) == {i \in Ids(commission) : commission[i].sale_id = s}

\* The listings an insert_sales step has sold: unsold before, sold after.
SoldByStep == {l \in Ids(Listing) : Listing[l].is_sold = 0 /\ Listing'[l].is_sold = 1}

\* No committed state has a sold listing without a Sale with a Commission,
\* or a Sale whose listing is not marked sold.
NoHalfSale ==
    /\ \A l \in Ids(Listing) :
          Listing[l].is_sold = 1 =>
              \E i \in SalesOf(Sale, l) : CommissionsOf(Commission, i) # {}
    /\ \A i \in Ids(Sale) : Listing[Sale[i].listing_id].is_sold = 1

\* C6: an insert_sales call whose sale block meets no failure commits, for
\* each listing it sold, exactly one new Sale, exactly one new Commission
\* and is_sold = 1, and nothing else in the three tables; one whose sale
\* block fails (at a Sale INSERT, a flag UPDATE, a Commission INSERT or the
\* COMMIT) commits no change to Sale, Commission or Listing; and no
\* committed state holds half a sale.
C6_SaleRecordingAtomic ==
    /\ []NoHalfSale
    /\ [][lastOp'.op = "insert_sales" =>
            IF "sales" \in Range(lastOp'.printed)
            THEN Sale' = Sale /\ Commission' = Commission /\ Listing' = Listing
            ELSE /\ Len(Sale') = Len(Sale) + Cardinality(SoldByStep)
                 /\ Len(Commission') = Len(Commission) + Cardinality(SoldByStep)
                 /\ SubSeq(Sale', 1, Len(Sale)) = Sale
                 /\ SubSeq(Commission', 1, Len(Commission)) = Commission
                 /\ \A l \in Ids(Listing) \ SoldByStep : Listing'[l] = Listing[l]
                 /\ Len(Listing') = Len(Listing)
                 /\ \A l \in SoldByStep :
                       /\ Cardinality(SalesOf(Sale', l)) = 1
                       /\ \A i \in SalesOf(Sale', l) :
                             /\ i > Len(Sale)
                             /\ Cardinality(CommissionsOf(Commission', i)) = 1
                             /\ \A c \in CommissionsOf(Commission', i) : c > Len(Commission)
         ]_vars

\* An insert_sales call has just failed in its sale block with an unsold
\* listing to sell, after an earlier call had sold another.
C6_Witness ==
    /\ lastOp.op = "insert_sales"
    /\ lastOp.printed = <<"sales">>
    /\ Len(Sale) = 1
    /\ \E l \in Ids(Listing) : Listing[l].is_sold = 0

\* C7: a listing with is_sold = 1 is referenced by exactly one Sale, one
\* with is_sold = 0 by none; a new listing starts with is_sold = 0 and a
\* listing with is_sold = 1 keeps it.
C7_SoldFlagMatchesSales ==
    /\ [](\A l \in Ids(Listing) :
            /\ Listing[l].is_sold \in {0, 1}
            /\ Cardinality(SalesOf(Sale, l)) = Listing[l].is_sold)
    /\ [][/\ \A l \in Ids(Listing') \ Ids(Listing) : Listing'[l].is_sold = 0
          /\ \A l \in Ids(Listing) :
                Listing[l].is_sold = 1 => (l \in Ids(Listing') /\ Listing'[l].is_sold = 1)
         ]_vars

\* Two listings, the first sold by an insert_sales call, the second not.
C7_Witness ==
    /\ lastOp.op = "insert_sales"
    /\ Len(Listing) = 2
    /\ Listing[1].is_sold = 1
    /\ Listing[2].is_sold = 0
    /\ Len(Sale) = 1

\* C8: every Sale is referenced by exactly one Commission, which carries
\* the Sale's selling agent, its date and sale_price x rate(sale_price);
\* the Sale's price, selling agent and office are those of its listing.
C8_OneCommissionPerSale ==
    \A i \in Ids(Sale) :
        /\ Cardinality(CommissionsOf(Commission, i)) = 1
        /\ \A c \in CommissionsOf(Commission, i) :
              /\ Commission[c].agent_id = Sale[i].selling_agent_id
              /\ Commission[c].date_of_commission = Sale[i].date_of_sale
              /\ Commission[c].amount * 1000
                    = Sale[i].sale_price * get_commission_rate(Sale[i].sale_price)
        /\ Sale[i].listing_id \in Ids(Listing)
        /\ Sale[i].sale_price = Listing[Sale[i].listing_id].listing_price
        /\ Sale[i].selling_agent_id = Listing[Sale[i].listing_id].listing_agent_id
        /\ Sale[i].office_id = Listing[Sale[i].listing_id].office_id

\* Two sales of different agents, the second at 150,000.00 with a
\* commission of 11,250.00.
C8_Witness ==
    /\ Len(Sale) = 2
    /\ Sale[1].selling_agent_id # Sale[2].selling_agent_id
    /\ Sale[2].sale_price = 15000000
    /\ \E c \in CommissionsOf(Commission, 2) : Commission[c].amount = 1125000

StorageFailureHandled(ops) ==
    lastOp'.op \in ops =>
        LET reported == Range(lastOp'.printed)
        IN  /\ lastOp'.raised = "none"
            /\ "offices" \in reported => Office' = Office
            /\ "agents" \in reported => (Agent' = Agent /\ AgentOffice' = AgentOffice)
            /\ "assignments" \in reported => AgentOffice' = AgentOffice
            /\ "sellers" \in reported => Seller' = Seller
            /\ "listings" \in reported => Listing' = Listing
            /\ "buyers" \in reported => Buyer' = Buyer
            /\ "sales" \in reported =>
                  (Sale' = Sale /\ Commission' = Commission /\ Listing' = Listing)

\* C12: every write operation (insert_offices, insert_agents,
\* assign_agents_to_offices, insert_listings, insert_sales and the rollup
\* get_total_commission) catches a storage failure, rolls the failed unit
\* of work back and reports it: no call ends with an exception raised.
C12_WritesCatchStorageFailure ==
    [][StorageFailureHandled({"insert_offices", "insert_agents",
                              "assign_agents_to_offices", "insert_listings",
                              "insert_sales", "get_total_commission"})]_vars

\* C15: a get_total_commission call changes no MonthlyCommission row that
\* exists, whatever Commissions have been recorded since the row was
\* stored, and adds no row for an (agent_id, date) that has one.
C15_StoredTotalIsKept ==
    [][lastOp'.op = "get_total_commission" =>
          /\ Len(MonthlyCommission') >= Len(MonthlyCommission)
          /\ \A i \in Ids(MonthlyCommission) :
                MonthlyCommission'[i] = MonthlyCommission[i]
          /\ \A j \in Ids(MonthlyCommission') \ Ids(MonthlyCommission) :
                ~ \E i \in Ids(MonthlyCommission) :
                     /\ MonthlyCommission[i].agent_id = MonthlyCommission'[j].agent_id
                     /\ MonthlyCommission[i].date = MonthlyCommission'[j].date]_vars

\* After rollup, insert_sales, rollup for December 2023: the agent's only
\* row under 2024-01-01 holds the commission of the first sale, 11,250.00,
\* while the agent's two Commissions of December now sum to more.
C15_Witness ==
    /\ lastOp.op = "get_total_commission"
    /\ lastOp.raised = "none"
    /\ \E i \in Ids(MonthlyCommission) :
          LET now == WindowTotal(MonthlyCommission[i].agent_id, 20231201, 20240101)
          IN  /\ MonthlyCommission[i].date = 20240101
              /\ MonthlyCommission[i].amount = 1125000
              /\ now.count = 2
              /\ now.total > MonthlyCommission[i].amount
              /\ \A j \in Ids(MonthlyCommission) :
                    (/\ MonthlyCommission[j].agent_id = MonthlyCommission[i].agent_id
                     /\ MonthlyCommission[j].date = 20240101) => j = i

(***************************************************************************)
(* Properties of the commission rate (SpecRate).                           *)
(***************************************************************************)
\* C5: the rate of a price p (in cents) is 0.10 below 100,000.00, 0.075
\* from 100,000.00 to below 200,000.00, 0.06 from 200,000.00 to below
\* 500,000.00, 0.05 from 500,000.00 to below 1,000,000.00 and 0.04 from
\* 1,000,000.00 on; a negative price gets 0.10; and no higher price among
\* the probes gets a higher rate.
C5_RateTiers ==
    lastOp.op = "get_commission_rate" =>
        LET p == result.sale_price
            r == result.rate
        IN  /\ p < 10000000 => r = 100
            /\ (10000000 <= p /\ p < 20000000) => r = 75
            /\ (20000000 <= p /\ p < 50000000) => r = 60
            /\ (50000000 <= p /\ p < 100000000) => r = 50
            /\ p >= 100000000 => r = 40
            /\ p < 0 => r = 100
            /\ \A q \in PriceProbes : q >= p => get_commission_rate(q) <= r

\* The rate of 100,000.00 has been computed: 0.075, the upper tier.
C5_Witness ==
    /\ lastOp.op = "get_commission_rate"
    /\ result.sale_price = 10000000
    /\ result.rate = 75

(***************************************************************************)
(* Properties of the report (SpecReport).                                  *)
(***************************************************************************)
\* The window of the last query holds no Sale.
NoSaleInWindow ==
    LET start == result.year * 10000 + result.month * 100 + 1
        end == IF result.month = 12 THEN (result.year + 1) * 10000 + 101
               ELSE result.year * 10000 + (result.month + 1) * 100 + 1
    IN  ~ \E i \in Ids(Sale) : start <= Sale[i].date_of_sale /\ Sale[i].date_of_sale < end

\* C10: for a (year, month) whose window holds no Sale, the two averages
\* return None without raising, and main() for that month, when the
\* storage does not fail, ends without an exception.  (December is left
\* out: there main() stops earlier, at the commission table.)
C10_EmptyWindowNoException ==
    /\ (/\ lastOp.op \in {"average_days_on_market_monthly",
                          "average_selling_price_monthly"}
        /\ NoSaleInWindow)
       => (lastOp.raised = "none" /\ result.value.none)
    /\ (/\ lastOp.op = "main"
        /\ NoSaleInWindow
        /\ result.month # 12
        /\ lastOp.raised # "OperationalError")
       => lastOp.raised = "none"

(***************************************************************************)
(* Properties of two rollups at once (SpecConc).                           *)
(***************************************************************************)
\* C3: when two get_total_commission calls for the same (year, month), in
\* separate sessions, have both committed, the MonthlyCommission table
\* holds no two rows with the same (agent_id, date) and holds exactly the
\* rows a single call would have stored.
C3_ConcurrentRollupSafe ==
    (\A s \in SessionIds : sessions[s].pc = "done") =>
        /\ \A i, j \in Ids(MonthlyCommission) :
              (/\ MonthlyCommission[i].agent_id = MonthlyCommission[j].agent_id
               /\ MonthlyCommission[i].date = MonthlyCommission[j].date) => i = j
        /\ \A s \in SessionIds :
              \E single \in RolledUp([Store EXCEPT !.MonthlyCommission = <<>>],
                                     sessions[s].year, sessions[s].month) :
                  single.MonthlyCommission = MonthlyCommission

\* The lines <<agent_id, amount>> of the MonthlyCommission rows dated in
\* [from, to), in id order.
CommissionLines(from, to) ==
    LET shown == InIdOrder({i \in Ids(MonthlyCommission) :
                               /\ from <= MonthlyCommission[i].date
                               /\ MonthlyCommission[i].date < to})
    IN  [j \in 1..Len(shown) |->
            <<MonthlyCommission[shown[j]].agent_id, MonthlyCommission[shown[j]].amount>>]

\* The first day of (year, month), and of the month after it.
FirstDay(year, month) == year * 10000 + month * 100 + 1
FirstDayAfter(year, month) ==
    IF month = 12 THEN FirstDay(year + 1, 1) ELSE FirstDay(year, month + 1)

\* C13: for every year and month 1..12, print_monthly_commission_table
\* ends normally and prints exactly the MonthlyCommission rows dated in
\* [first day of the month, first day of the next month); and the table
\* main() prints for (year, month) holds exactly the rows the rollup of
\* that month stores, those dated the first day of the next month.
C13_TableOfOneMonth ==
    /\ lastOp.op = "print_monthly_commission_table" =>
          /\ lastOp.raised = "none"
          /\ result.value = CommissionLines(FirstDay(result.year, result.month),
                                            FirstDayAfter(result.year, result.month))
    /\ (lastOp.op = "main" /\ lastOp.raised \in {"none", "TypeError"}) =>
          result.value = CommissionLines(FirstDayAfter(result.year, result.month),
                                         FirstDayAfter(result.year, result.month) + 1)

\* C14: the report queries (top_offices_by_sales_monthly,
\* top_agents_by_sales_monthly, average_days_on_market_monthly,
\* average_selling_price_monthly, print_monthly_commission_table) are pure
\* reads: from every store and for every (year, month), a call of any of
\* them leaves every table as it was.
C14_ReportsArePureReads ==
    [][lastOp'.op \in {"top_offices_by_sales_monthly", "top_agents_by_sales_monthly",
                       "average_days_on_market_monthly",
                       "average_selling_price_monthly",
                       "print_monthly_commission_table"}
          => /\ Office' = Office /\ Agent' = Agent /\ AgentOffice' = AgentOffice
             /\ Seller' = Seller /\ Buyer' = Buyer /\ Listing' = Listing
             /\ Sale' = Sale /\ Commission' = Commission
             /\ MonthlyCommission' = MonthlyCommission]_vars

\* The commission table has just been printed with at least one line, and
\* the MonthlyCommission rows it read are still stored.
C14_Witness ==
    /\ lastOp.op = "print_monthly_commission_table"
    /\ lastOp.raised = "none"
    /\ Len(result.value) > 0
    /\ Len(MonthlyCommission) >= Len(result.value)
    /\ Len(Sale) > 0

(***************************************************************************)
(* Properties of the top agents (SpecTop).                                 *)
(***************************************************************************)
\* The Sales of agent a dated in the window of the last query.
WindowSales(a) ==
    LET start == result.year * 10000 + result.month * 100 + 1
        end == IF result.month = 12 THEN (result.year + 1) * 10000 + 101
               ELSE result.year * 10000 + (result.month + 1) * 100 + 1
    IN  {i \in Ids(Sale) : /\ Sale[i].selling_agent_id = a
                           /\ start <= Sale[i].date_of_sale
                           /\ Sale[i].date_of_sale < end}

\* C11: top_agents_by_sales_monthly(year, month) returns at most 5 rows,
\* no two for the same agent, each for an agent with at least one Sale
\* dated in [start, end) and carrying the exact number of these Sales, in
\* non-increasing order of that number; when fewer than 5 agents have such
\* a Sale, every one of them has a row.
C11_TopAgents ==
    lastOp.op = "top_agents_by_sales_monthly" =>
        LET rows == result.value
            qualifying == {a \in Ids(Agent) : WindowSales(a) # {}}
        IN  /\ Len(rows) <= 5
            /\ \A i, j \in 1..Len(rows) : rows[i][1] = rows[j][1] => i = j
            /\ \A i \in 1..Len(rows) :
                  /\ rows[i][1] \in qualifying
                  /\ rows[i][5] = Cardinality(WindowSales(rows[i][1]))
            /\ \A i, j \in 1..Len(rows) : i < j => rows[i][5] >= rows[j][5]
            /\ Cardinality(qualifying) < 5 =>
                  {rows[i][1] : i \in 1..Len(rows)} = qualifying

\* April 2023 has been queried on a store where six agents have a Sale in
\* April: five rows came back, the first with 2 sales and the last with 1,
\* and agent 1, whose further Sale is dated 2023-05-01, is shown with 1.
C11_Witness ==
    /\ lastOp.op = "top_agents_by_sales_monthly"
    /\ result.month = 4
    /\ Cardinality({a \in Ids(Agent) : WindowSales(a) # {}}) = 6
    /\ Len(result.value) = 5
    /\ result.value[1][5] = 2
    /\ result.value[5][5] = 1
    /\ \E i \in 1..5 : result.value[i][1] = 1 /\ result.value[i][5] = 1
    /\ \E s \in Ids(Sale) : Sale[s].selling_agent_id = 1 /\ Sale[s].date_of_sale = 20230501

====
